---- MODULE Spec2Model ----
(* Model of j5ik2o/dci-example-rust: the Money value object (src/money.rs)  *)
(* and the role-based transfer protocol of BankAccount                      *)
(* (src/bank_account.rs).                                                   *)
(*                                                                          *)
(* A rust_decimal Decimal is modelled as a signed mantissa m with a scale s *)
(* (the value is m / 10^s).  The model keeps mantissas far below the 96-bit *)
(* limit of Decimal, so the overflow panics of the decimal layer are out of *)
(* its range.                                                               *)
EXTENDS Integers, Sequences, FiniteSets

(***************************************************************************)
(* Bounds of the exploration.                                              *)
(***************************************************************************)
\* largest |mantissa| of a Decimal or integer given to a constructor
MaxCtorInput == 6
\* largest scale of a Decimal given to a constructor
MaxCtorScale == 3
\* largest |mantissa| of a Decimal operand, factor or divisor
MaxInput == 2
\* largest scale of a Decimal operand, factor or divisor
MaxInScale == 1
\* largest |mantissa| a Money register may hold (larger results are not explored)
MaxMantissa == 12
\* largest scale a Money register may hold
MaxScale == 2
\* largest amount, in minor units, deposited, withdrawn or transferred
MaxAmount == 2
\* largest |balance|, in minor units, of an account that is explored
MaxBalance == 3

(***************************************************************************)
(* Decimal layer (rust_decimal), as used by src/money.rs.                  *)
(***************************************************************************)
RECURSIVE Pow10(_)
Pow10(n) == IF n <= 0 THEN 1 ELSE 10 * Pow10(n - 1)

Max(a, b) == IF a >= b THEN a ELSE b

AbsInt(i) == IF i < 0 THEN -i ELSE i

Sign(i) == IF i < 0 THEN -1 ELSE 1

Dec(m, s) == [m |-> m, s |-> s]

\* Decimal::zero()
DecZero == Dec(0, 0)

\* Decimal::from(integer), Decimal::from_i32, from_i64: scale 0
DecFromInt(i) == Dec(i, 0)

\* a.rescale(scale): scaling up multiplies the mantissa; scaling down drops
\* digits and rounds the magnitude half up on the last digit dropped
DecRescale(a, scale) ==
  IF scale >= a.s
    THEN Dec(a.m * Pow10(scale - a.s), scale)
    ELSE LET diff == a.s - scale
             mag  == AbsInt(a.m)
             q    == mag \div Pow10(diff)
             last == (mag \div Pow10(diff - 1)) % 10
             r    == IF last >= 5 THEN q + 1 ELSE q
         IN  Dec(Sign(a.m) * r, scale)

\* a + b: operands aligned to the larger scale
DecAdd(a, b) ==
  LET sc == Max(a.s, b.s)
  IN  Dec(a.m * Pow10(sc - a.s) + b.m * Pow10(sc - b.s), sc)

\* -a
DecNeg(a) == Dec(-a.m, a.s)

\* a.abs()
DecAbs(a) == Dec(AbsInt(a.m), a.s)

\* a * f: zero if either operand is zero, otherwise the scales add up
DecMul(a, f) ==
  IF a.m = 0 \/ f.m = 0 THEN DecZero ELSE Dec(a.m * f.m, a.s + f.s)

\* a > b, a < b, a == b compare the numeric values, whatever the scales
DecCmp(a, b) ==
  LET sc == Max(a.s, b.s)
      x  == a.m * Pow10(sc - a.s)
      y  == b.m * Pow10(sc - b.s)
  IN  IF x > y THEN "Greater" ELSE IF x < y THEN "Less" ELSE "Equal"

\* long division of the magnitudes: one more fractional digit per step while
\* a remainder is left; fuel = 0 with a remainder left means the quotient
\* needs more digits than the model explores
RECURSIVE DivLoop(_, _, _, _, _)
DivLoop(q, r, d, sc, fuel) ==
  IF r = 0 THEN [q |-> q, s |-> sc, exact |-> TRUE]
  ELSE IF fuel = 0 THEN [q |-> q, s |-> sc, exact |-> FALSE]
  ELSE DivLoop(q * 10 + (r * 10) \div d, (r * 10) % d, d, sc + 1, fuel - 1)

\* a / d for d # 0: [m, s] of the quotient and whether it is exact within
\* MaxScale + MaxInScale fractional digits
DecDiv(a, d) ==
  IF a.m = 0 THEN [m |-> 0, s |-> 0, exact |-> TRUE]
  ELSE LET n   == AbsInt(a.m)
           k   == AbsInt(d.m)
           res == DivLoop(n \div k, n % k, k, a.s - d.s, MaxScale + MaxInScale)
           sg  == Sign(a.m) * Sign(d.m)
       IN  IF res.s < 0
             THEN [m |-> sg * res.q * Pow10(-res.s), s |-> 0, exact |-> res.exact]
             ELSE [m |-> sg * res.q, s |-> res.s, exact |-> res.exact]

(***************************************************************************)
(* Money (src/money.rs).                                                   *)
(***************************************************************************)
Currencies == {"USD", "JPY"}

\* CurrencyCode::digit(): the canonical number of fractional digits
digit(currency) == IF currency = "USD" THEN 2 ELSE 0

Money(amount, currency) == [amount |-> amount, currency |-> currency]

\* Result<_, MoneyError> and the panic of the decimal layer
Ok(v) == [kind |-> "ok", val |-> <<v>>, err |-> "none"]
Err(e) == [kind |-> "err", val |-> <<>>, err |-> e]
Panic(msg) == [kind |-> "panic", val |-> <<>>, err |-> msg]
NoResult == [kind |-> "none", val |-> <<>>, err |-> "none"]

NotSameCurrencyError == "NotSameCurrencyError"

\* new that stores the amount as given, without rescaling
Money_new_unscaled(amount, currency) == Money(amount, currency)

\* Money::new (money.rs 115-123)
Money_new(amount, currency) == Money(DecRescale(amount, digit(currency)), currency)

\* Money::dollars, dollars_i32, dollars_i64 (money.rs 125-135)
dollars(amount) == Money_new(amount, "USD")
dollars_i32(i) == dollars(DecFromInt(i))

\* Money::yens, yens_i32, yens_i64 (money.rs 141-151)
yens(amount) == Money_new(amount, "JPY")
yens_i32(i) == yens(DecFromInt(i))

\* Money::zero (money.rs 153-155)
zero(currency) == Money_new(DecZero, currency)

\* From<(Decimal, CurrencyCode)> (money.rs 87-91)
from_decimal(amount, currency) == Money_new(amount, currency)

\* from_numeric_impl: From<(integer, CurrencyCode)> (money.rs 100-112)
from_numeric(i, currency) ==
  Money_new(DecRescale(DecFromInt(i), digit(currency)), currency)

\* Money::abs (money.rs 157-162)
abs(self) == Money(DecAbs(self.amount), self.currency)

\* Money::is_positive, is_negative, is_zero (money.rs 164-174)
is_positive(self) == DecCmp(self.amount, DecZero) = "Greater"
is_negative(self) == DecCmp(self.amount, DecZero) = "Less"
is_zero(self) == self.amount.m = 0

\* Money::negated (money.rs 176-181)
negated(self) == Money(DecNeg(self.amount), self.currency)

\* add without the currency check
add_unchecked(self, other) ==
  Ok(Money(DecAdd(self.amount, other.amount), self.currency))

\* Money::add (money.rs 184-193)
add(self, other) ==
  IF self.currency # other.currency
    THEN Err(NotSameCurrencyError)
    ELSE Ok(Money(DecAdd(self.amount, other.amount), self.currency))

\* Money::subtract (money.rs 195-197)
subtract(self, other) == add(self, negated(other))

\* Money::times (money.rs 199-204)
times(self, factor) == Money(DecMul(self.amount, factor), self.currency)

\* divided_by that turns a zero divisor into a zero amount
divided_by_swallowing(self, divisor) ==
  IF divisor.m = 0
    THEN Ok(Money(DecZero, self.currency))
    ELSE LET q == DecDiv(self.amount, divisor)
         IN  Ok(Money(Dec(q.m, q.s), self.currency))

\* Money::divided_by (money.rs 206-211): the Decimal `/` panics on a zero
\* divisor, so no Money is built
divided_by(self, divisor) ==
  IF divisor.m = 0
    THEN Panic("Division by zero")
    ELSE LET q == DecDiv(self.amount, divisor)
         IN  Ok(Money(Dec(q.m, q.s), self.currency))

\* partial_cmp that orders the amounts without looking at the currencies
partial_cmp_any_currency(self, other) == DecCmp(self.amount, other.amount)

\* impl PartialOrd for Money: partial_cmp (money.rs 33-45)
partial_cmp(self, other) ==
  IF self.currency # other.currency THEN "None"
  ELSE IF DecCmp(self.amount, other.amount) = "Greater" THEN "Greater"
  ELSE IF DecCmp(self.amount, other.amount) = "Less" THEN "Less"
  ELSE "Equal"

\* impl Add for Money, impl Sub for Money (money.rs 47-61): unwrap or panic
unwrap_or_panic(r) == IF r.kind = "err" THEN Panic(r.err) ELSE r
op_add(self, rhs) == unwrap_or_panic(add(self, rhs))
op_sub(self, rhs) == unwrap_or_panic(subtract(self, rhs))

(***************************************************************************)
(* Inputs of the exploration.                                              *)
(***************************************************************************)
\* the Decimal values handed to the constructors
CtorInputs == {Dec(m, s) : m \in -MaxCtorInput..MaxCtorInput, s \in 0..MaxCtorScale}

\* the integers handed to the integer constructors
IntInputs == -MaxCtorInput..MaxCtorInput

\* the Decimal values that operands are built from, and the factors and
\* divisors of times and divided_by
DecInputs == {Dec(m, s) : m \in -MaxInput..MaxInput, s \in 0..MaxInScale}

\* a Money value the Money registers may hold
InBounds(money) ==
  AbsInt(money.amount.m) <= MaxMantissa /\ money.amount.s <= MaxScale

VARIABLES
  acc,       \* a Money value built by the constructors and the operations
  calc,      \* the last Money operation: its operands and what it returned
  ba,        \* the account values the caller holds, by slot
  ctor,      \* the balance each held account was constructed with
  last,      \* the last deposit/withdraw call made directly by the caller
  pc,        \* position inside TransferContext::transfer / send
  ctx,       \* the TransferContext and the amount being transferred
  new_from,  \* send's local new_from
  new_to,    \* send's local new_to
  result,    \* what transfer returned
  trace      \* the calls send has made so far

moneyVars == <<acc, calc>>
bankVars == <<ba, ctor, last, pc, ctx, new_from, new_to, result, trace>>
vars == <<acc, calc, ba, ctor, last, pc, ctx, new_from, new_to, result, trace>>

(***************************************************************************)
(* Money operations as steps of a caller that holds one Money value, acc.  *)
(* calc records the call: op, the value it was called on (lhs), its Money  *)
(* or Decimal argument, the currency argument, what it returned (res) and, *)
(* for a comparison, the ordering (ord).  A panic ends the run.            *)
(***************************************************************************)
Call(op, lhs, money, dec, cur, res, ord) ==
  [op |-> op, lhs |-> lhs, money |-> money, dec |-> dec, cur |-> cur,
   res |-> res, ord |-> ord]

Running == calc.res.kind # "panic"

\* the Money arguments of add, subtract and the comparison: freshly
\* constructed values and the held value itself
MoneyArgs == {Money_new(d, c) : d \in DecInputs, c \in Currencies} \cup {acc}

\* the constructors on the constructor inputs
CNew ==
  \E d \in CtorInputs, c \in Currencies :
    LET v == Money_new(d, c)
    IN  /\ Running
        /\ acc' = v
        /\ calc' = Call("new", <<>>, <<>>, <<d>>, c, Ok(v), "none")
        /\ UNCHANGED bankVars

CZero ==
  \E c \in Currencies :
    LET v == zero(c)
    IN  /\ Running
        /\ acc' = v
        /\ calc' = Call("zero", <<>>, <<>>, <<DecZero>>, c, Ok(v), "none")
        /\ UNCHANGED bankVars

CDollars ==
  \E d \in CtorInputs :
    LET v == dollars(d)
    IN  /\ Running
        /\ acc' = v
        /\ calc' = Call("dollars", <<>>, <<>>, <<d>>, "USD", Ok(v), "none")
        /\ UNCHANGED bankVars

CDollarsInt ==
  \E i \in IntInputs :
    LET v == dollars_i32(i)
    IN  /\ Running
        /\ acc' = v
        /\ calc' = Call("dollars_i32", <<>>, <<>>, <<DecFromInt(i)>>, "USD", Ok(v), "none")
        /\ UNCHANGED bankVars

CYens ==
  \E d \in CtorInputs :
    LET v == yens(d)
    IN  /\ Running
        /\ acc' = v
        /\ calc' = Call("yens", <<>>, <<>>, <<d>>, "JPY", Ok(v), "none")
        /\ UNCHANGED bankVars

CYensInt ==
  \E i \in IntInputs :
    LET v == yens_i32(i)
    IN  /\ Running
        /\ acc' = v
        /\ calc' = Call("yens_i32", <<>>, <<>>, <<DecFromInt(i)>>, "JPY", Ok(v), "none")
        /\ UNCHANGED bankVars

CFromDecimal ==
  \E d \in CtorInputs, c \in Currencies :
    LET v == from_decimal(d, c)
    IN  /\ Running
        /\ acc' = v
        /\ calc' = Call("from_decimal", <<>>, <<>>, <<d>>, c, Ok(v), "none")
        /\ UNCHANGED bankVars

CFromNumeric ==
  \E i \in IntInputs, c \in Currencies :
    LET v == from_numeric(i, c)
    IN  /\ Running
        /\ acc' = v
        /\ calc' = Call("from_numeric", <<>>, <<>>, <<DecFromInt(i)>>, c, Ok(v), "none")
        /\ UNCHANGED bankVars

\* Money::new on the operand inputs: the values the operations start from
MNew ==
  \E d \in DecInputs, c \in Currencies :
    LET v == Money_new(d, c)
    IN  /\ Running
        /\ InBounds(v)
        /\ acc' = v
        /\ calc' = Call("new", <<>>, <<>>, <<d>>, c, Ok(v), "none")
        /\ UNCHANGED bankVars

MAdd ==
  \E n \in MoneyArgs :
    LET r == add(acc, n)
    IN  /\ Running
        /\ r.kind = "ok" => InBounds(r.val[1])
        /\ acc' = IF r.kind = "ok" THEN r.val[1] ELSE acc
        /\ calc' = Call("add", <<acc>>, <<n>>, <<>>, "none", r, "none")
        /\ UNCHANGED bankVars

MSubtract ==
  \E n \in MoneyArgs :
    LET r == subtract(acc, n)
    IN  /\ Running
        /\ r.kind = "ok" => InBounds(r.val[1])
        /\ acc' = IF r.kind = "ok" THEN r.val[1] ELSE acc
        /\ calc' = Call("subtract", <<acc>>, <<n>>, <<>>, "none", r, "none")
        /\ UNCHANGED bankVars

MOpAdd ==
  \E n \in MoneyArgs :
    LET r == op_add(acc, n)
    IN  /\ Running
        /\ r.kind = "ok" => InBounds(r.val[1])
        /\ acc' = IF r.kind = "ok" THEN r.val[1] ELSE acc
        /\ calc' = Call("op_add", <<acc>>, <<n>>, <<>>, "none", r, "none")
        /\ UNCHANGED bankVars

MOpSub ==
  \E n \in MoneyArgs :
    LET r == op_sub(acc, n)
    IN  /\ Running
        /\ r.kind = "ok" => InBounds(r.val[1])
        /\ acc' = IF r.kind = "ok" THEN r.val[1] ELSE acc
        /\ calc' = Call("op_sub", <<acc>>, <<n>>, <<>>, "none", r, "none")
        /\ UNCHANGED bankVars

MNegated ==
  LET v == negated(acc)
  IN  /\ Running
        /\ InBounds(v)
        /\ acc' = v
        /\ calc' = Call("negated", <<acc>>, <<>>, <<>>, "none", Ok(v), "none")
        /\ UNCHANGED bankVars

MAbs ==
  LET v == abs(acc)
  IN  /\ Running
        /\ InBounds(v)
        /\ acc' = v
        /\ calc' = Call("abs", <<acc>>, <<>>, <<>>, "none", Ok(v), "none")
        /\ UNCHANGED bankVars

MTimes ==
  \E f \in DecInputs :
    LET v == times(acc, f)
    IN  /\ Running
        /\ InBounds(v)
        /\ acc' = v
        /\ calc' = Call("times", <<acc>>, <<>>, <<f>>, "none", Ok(v), "none")
        /\ UNCHANGED bankVars

\* quotients that need more digits than the model explores are left out
MDividedBy ==
  \E d \in DecInputs :
    LET r == divided_by(acc, d)
    IN  /\ Running
        /\ d.m # 0 => DecDiv(acc.amount, d).exact
        /\ r.kind = "ok" => InBounds(r.val[1])
        /\ acc' = IF r.kind = "ok" THEN r.val[1] ELSE acc
        /\ calc' = Call("divided_by", <<acc>>, <<>>, <<d>>, "none", r, "none")
        /\ UNCHANGED bankVars

MPartialCmp ==
  \E n \in MoneyArgs :
    /\ Running
    /\ calc' = Call("partial_cmp", <<acc>>, <<n>>, <<>>, "none", NoResult,
                    partial_cmp(acc, n))
    /\ UNCHANGED acc
    /\ UNCHANGED bankVars

(***************************************************************************)
(* BankAccount and its roles (src/bank_account.rs).                        *)
(***************************************************************************)
\* BankAccount::new (bank_account.rs 20-26)
BankAccount_new(id, user_account_id, balance) ==
  [id |-> id, user_account_id |-> user_account_id, balance |-> balance]

\* BankAccount::balance (bank_account.rs 28-30)
balance(self) == self.balance

\* deposit that assigns the amount instead of adding it
deposit_overwriting(self, amount) == Ok([self EXCEPT !.balance = amount])

\* BankAccount::deposit (bank_account.rs 32-35): `?` returns add's error
deposit(self, amount) ==
  LET r == add(self.balance, amount)
  IN  IF r.kind = "ok" THEN Ok([self EXCEPT !.balance = r.val[1]]) ELSE r

\* withdraw that adds the amount instead of subtracting it
withdraw_adding(self, amount) ==
  LET r == add(self.balance, amount)
  IN  IF r.kind = "ok" THEN Ok([self EXCEPT !.balance = r.val[1]]) ELSE r

\* BankAccount::withdraw (bank_account.rs 37-40): `?` returns subtract's error
withdraw(self, amount) ==
  LET r == subtract(self.balance, amount)
  IN  IF r.kind = "ok" THEN Ok([self EXCEPT !.balance = r.val[1]]) ELSE r

\* impl ReceiveRole for BankAccount: on_receive (bank_account.rs 67-75)
on_receive(self, money, from) ==
  LET r == deposit(self, money)
  IN  IF r.kind = "ok" THEN Ok(r.val[1]) ELSE r

\* the slots in which the caller holds account values
Slots == {1, 2}

\* the amounts and opening balances the caller uses: Money::new of k minor
\* units of either currency
BankAmounts ==
  {Money_new(Dec(k, digit(c)), c) : k \in -MaxAmount..MaxAmount, c \in Currencies}

BalanceInBounds(account) == AbsInt(account.balance.amount.m) <= MaxBalance

NoCall == [op |-> "none", slot |-> 0, before |-> <<>>, amount |-> <<>>, res |-> NoResult]
NoCtx == [from |-> <<>>, to |-> <<>>, money |-> <<>>, i |-> 0, j |-> 0]

\* let acct = BankAccount::new(id, user, balance), held in slot i
BNew ==
  \E i \in Slots, m \in BankAmounts :
    /\ pc = "idle"
    /\ ba' = [ba EXCEPT ![i] = <<BankAccount_new(i, 1, m)>>]
    /\ ctor' = [ctor EXCEPT ![i] = m.currency]
    /\ last' = NoCall
    /\ UNCHANGED <<pc, ctx, new_from, new_to, result, trace>>
    /\ UNCHANGED moneyVars

\* acct.deposit(m): the account value is moved into the call; the caller
\* holds the returned account, or nothing after an error
BDeposit ==
  \E i \in Slots, m \in BankAmounts :
    /\ pc = "idle"
    /\ ba[i] # <<>>
    /\ LET r == deposit(ba[i][1], m)
       IN  /\ r.kind = "ok" => BalanceInBounds(r.val[1])
           /\ ba' = [ba EXCEPT ![i] = r.val]
           /\ last' = [op |-> "deposit", slot |-> i, before |-> ba[i],
                       amount |-> <<m>>, res |-> r]
    /\ UNCHANGED <<ctor, pc, ctx, new_from, new_to, result, trace>>
    /\ UNCHANGED moneyVars

\* acct.withdraw(m)
BWithdraw ==
  \E i \in Slots, m \in BankAmounts :
    /\ pc = "idle"
    /\ ba[i] # <<>>
    /\ LET r == withdraw(ba[i][1], m)
       IN  /\ r.kind = "ok" => BalanceInBounds(r.val[1])
           /\ ba' = [ba EXCEPT ![i] = r.val]
           /\ last' = [op |-> "withdraw", slot |-> i, before |-> ba[i],
                       amount |-> <<m>>, res |-> r]
    /\ UNCHANGED <<ctor, pc, ctx, new_from, new_to, result, trace>>
    /\ UNCHANGED moneyVars

\* TransferContext::new(from, to).transfer(money) (bank_account.rs 102-107):
\* both account values are moved into the context, transfer calls send
TransferStart ==
  \E i \in Slots, j \in Slots, m \in BankAmounts :
    /\ pc = "idle"
    /\ i # j
    /\ ba[i] # <<>> /\ ba[j] # <<>>
    /\ ctx' = [from |-> ba[i], to |-> ba[j], money |-> <<m>>, i |-> i, j |-> j]
    /\ ba' = [ba EXCEPT ![i] = <<>>, ![j] = <<>>]
    /\ pc' = "send"
    /\ trace' = <<>>
    /\ last' = NoCall
    /\ UNCHANGED <<ctor, new_from, new_to, result>>
    /\ UNCHANGED moneyVars

\* send, line 83: let new_from = self.withdraw(money.clone())?
SendWithdraw ==
  /\ pc = "send"
  /\ LET r == withdraw(ctx.from[1], ctx.money[1])
     IN  /\ r.kind = "ok" => BalanceInBounds(r.val[1])
         /\ trace' = Append(trace, [call |-> "withdraw", ok |-> r.kind = "ok",
                                    self |-> ctx.from, from |-> <<>>])
         /\ IF r.kind = "ok"
              THEN /\ new_from' = r.val
                   /\ pc' = "on_receive"
                   /\ UNCHANGED result
              ELSE /\ result' = r
                   /\ pc' = "done"
                   /\ UNCHANGED new_from
  /\ UNCHANGED <<ba, ctor, last, ctx, new_to>>
  /\ UNCHANGED moneyVars

\* line 84 handing on_receive the sender as it was before the withdrawal
SendOnReceive_stale_sender ==
  /\ pc = "on_receive"
  /\ LET r == on_receive(ctx.to[1], ctx.money[1], ctx.from[1])
     IN  /\ r.kind = "ok" => BalanceInBounds(r.val[1])
         /\ trace' = Append(trace, [call |-> "on_receive", ok |-> r.kind = "ok",
                                    self |-> ctx.to, from |-> ctx.from])
         /\ IF r.kind = "ok"
              THEN /\ new_to' = r.val
                   /\ pc' = "return"
                   /\ UNCHANGED result
              ELSE /\ result' = r
                   /\ pc' = "done"
                   /\ UNCHANGED new_to
  /\ UNCHANGED <<ba, ctor, last, ctx, new_from>>
  /\ UNCHANGED moneyVars

\* line 84 without the `?`: a failed deposit is ignored and the receiver is
\* returned as it was
SendOnReceive_ignoring_error ==
  /\ pc = "on_receive"
  /\ LET r == on_receive(ctx.to[1], ctx.money[1], new_from[1])
     IN  /\ r.kind = "ok" => BalanceInBounds(r.val[1])
         /\ trace' = Append(trace, [call |-> "on_receive", ok |-> r.kind = "ok",
                                    self |-> ctx.to, from |-> new_from])
         /\ new_to' = IF r.kind = "ok" THEN r.val ELSE ctx.to
         /\ pc' = "return"
         /\ UNCHANGED result
  /\ UNCHANGED <<ba, ctor, last, ctx, new_from>>
  /\ UNCHANGED moneyVars

\* send, line 84: let new_to = to.on_receive(money, new_from.clone())?
SendOnReceive ==
  /\ pc = "on_receive"
  /\ LET r == on_receive(ctx.to[1], ctx.money[1], new_from[1])
     IN  /\ r.kind = "ok" => BalanceInBounds(r.val[1])
         /\ trace' = Append(trace, [call |-> "on_receive", ok |-> r.kind = "ok",
                                    self |-> ctx.to, from |-> new_from])
         /\ IF r.kind = "ok"
              THEN /\ new_to' = r.val
                   /\ pc' = "return"
                   /\ UNCHANGED result
              ELSE /\ result' = r
                   /\ pc' = "done"
                   /\ UNCHANGED new_to
  /\ UNCHANGED <<ba, ctor, last, ctx, new_from>>
  /\ UNCHANGED moneyVars

\* send, line 85: Ok((new_from, new_to))
SendReturn ==
  /\ pc = "return"
  /\ result' = [kind |-> "ok", val |-> <<new_from[1], new_to[1]>>, err |-> "none"]
  /\ pc' = "done"
  /\ UNCHANGED <<ba, ctor, last, ctx, new_from, new_to, trace>>
  /\ UNCHANGED moneyVars

\* the caller takes what transfer returned: the pair of accounts, or an
\* error and no account
TransferDone ==
  /\ pc = "done"
  /\ ba' = IF result.kind = "ok"
             THEN [ba EXCEPT ![ctx.i] = <<result.val[1]>>, ![ctx.j] = <<result.val[2]>>]
             ELSE ba
  /\ pc' = "idle"
  /\ ctx' = NoCtx
  /\ new_from' = <<>>
  /\ new_to' = <<>>
  /\ result' = NoResult
  /\ trace' = <<>>
  /\ UNCHANGED <<ctor, last>>
  /\ UNCHANGED moneyVars

(***************************************************************************)
(* Specifications.                                                         *)
(***************************************************************************)
\* the start of tests::test_dci: two zero-balance JPY accounts, and a zero
\* Money value in the caller's hand
Init ==
  /\ acc = zero("JPY")
  /\ calc = Call("zero", <<>>, <<>>, <<DecZero>>, "JPY", Ok(zero("JPY")), "none")
  /\ ba = [i \in Slots |-> <<BankAccount_new(i, 1, zero("JPY"))>>]
  /\ ctor = [i \in Slots |-> "JPY"]
  /\ last = NoCall
  /\ pc = "idle"
  /\ ctx = NoCtx
  /\ new_from = <<>>
  /\ new_to = <<>>
  /\ result = NoResult
  /\ trace = <<>>

Next ==
  \/ BNew
  \/ BDeposit
  \/ BWithdraw
  \/ TransferStart
  \/ SendWithdraw
  \/ SendOnReceive
  \/ SendReturn
  \/ TransferDone

\* the accounts and the transfer protocol
Spec == Init /\ [][Next]_vars

NextMoney ==
  \/ MNew
  \/ MAdd
  \/ MSubtract
  \/ MOpAdd
  \/ MOpSub
  \/ MNegated
  \/ MAbs
  \/ MTimes
  \/ MDividedBy
  \/ MPartialCmp

\* the Money value object
SpecMoney == Init /\ [][NextMoney]_vars

NextCtor ==
  \/ CNew
  \/ CZero
  \/ CDollars
  \/ CDollarsInt
  \/ CYens
  \/ CYensInt
  \/ CFromDecimal
  \/ CFromNumeric

\* the constructors of Money
SpecCtor == Init /\ [][NextCtor]_vars

(***************************************************************************)
(* Properties.                                                             *)
(***************************************************************************)
\* numeric relations between Decimals, stated on the mantissas brought to a
\* common scale
ValLess(a, b) == a.m * Pow10(b.s) < b.m * Pow10(a.s)
ValEq(a, b) == a.m * Pow10(b.s) = b.m * Pow10(a.s)
\* a + b = c
ValSum(a, b, c) ==
  a.m * Pow10(b.s + c.s) + b.m * Pow10(a.s + c.s) = c.m * Pow10(a.s + b.s)

Constructors ==
  {"new", "zero", "dollars", "dollars_i32", "yens", "yens_i32", "from_decimal",
   "from_numeric"}

\* C1: a withdrawal of a same-currency amount a from balance b fails exactly
\* when b - a would be negative (so withdrawing exactly b succeeds and
\* withdrawing b plus the smallest unit fails).
C1_WithdrawFailsIffOverdrawn ==
  (last.op = "withdraw"
     /\ last.amount[1].currency = last.before[1].balance.currency)
  => (last.res.kind = "err"
        <=> ValLess(last.before[1].balance.amount, last.amount[1].amount))

\* C2: a successful transfer of m returns (sender, receiver) in that order,
\* the sender's balance lowered by m and the receiver's raised by m, in the
\* currencies they had, so the sum of the two balances is unchanged; the
\* scenario of test_dci gives 990 JPY and 10 JPY.
C2_TransferMovesAmount ==
  /\ (pc = "done" /\ result.kind = "ok") =>
       LET s  == ctx.from[1].balance
           r  == ctx.to[1].balance
           m  == ctx.money[1]
           ns == result.val[1].balance
           nr == result.val[2].balance
       IN  /\ Len(result.val) = 2
           /\ result.val[1].id = ctx.from[1].id
           /\ result.val[2].id = ctx.to[1].id
           /\ ns.currency = s.currency
           /\ nr.currency = r.currency
           /\ ValSum(ns.amount, m.amount, s.amount)
           /\ ValSum(r.amount, m.amount, nr.amount)
           /\ ValEq(DecAdd(ns.amount, nr.amount), DecAdd(s.amount, r.amount))
  /\ LET ba1  == deposit(BankAccount_new(1, 1, zero("JPY")), yens_i32(1000)).val[1]
         ba2  == BankAccount_new(2, 1, zero("JPY"))
         from == withdraw(ba1, yens_i32(10))
         to   == on_receive(ba2, yens_i32(10), from.val[1])
     IN  /\ from.kind = "ok" /\ to.kind = "ok"
         /\ from.val[1].balance = Money(Dec(990, 0), "JPY")
         /\ to.val[1].balance = Money(Dec(10, 0), "JPY")

C2_Witness ==
  /\ pc = "done"
  /\ result.kind = "ok"
  /\ ctx.money[1].amount.m > 0
  /\ ctx.from[1].balance.currency = "USD"

\* C3: add returns the currency-mismatch error, and no value, exactly when
\* the currencies differ; otherwise it returns the sum of the amounts in
\* the shared currency.  5 USD + 5 JPY is the error.
C3_AddErrorIffCurrenciesDiffer ==
  /\ calc.op = "add" =>
       LET m == calc.lhs[1]
           n == calc.money[1]
       IN  /\ calc.res.kind \in {"ok", "err"}
           /\ calc.res.kind = "err" <=> m.currency # n.currency
           /\ calc.res.kind = "err" =>
                calc.res.err = NotSameCurrencyError /\ calc.res.val = <<>>
           /\ calc.res.kind = "ok" =>
                /\ calc.res.val[1].currency = m.currency
                /\ calc.res.val[1].currency = n.currency
                /\ ValSum(m.amount, n.amount, calc.res.val[1].amount)
                /\ acc = calc.res.val[1]
  /\ add(dollars_i32(5), yens_i32(5)) = Err(NotSameCurrencyError)

C3_Witness ==
  /\ calc.op = "add"
  /\ calc.res.kind = "err"
  /\ calc.lhs[1].amount.m # 0
  /\ calc.money[1].amount.m # 0

\* C4: when the withdrawal succeeded and the deposit into the receiver then
\* failed, transfer returns that error and no account at all; the debit is
\* not rolled back, and the caller holds neither account.
C4_FailedDepositReturnsOnlyError ==
  (pc = "done" /\ Len(trace) = 2 /\ ~trace[2].ok) =>
    /\ trace[1].ok
    /\ result.kind = "err"
    /\ result.err = NotSameCurrencyError
    /\ result.val = <<>>
    /\ new_to = <<>>
    /\ new_from # <<>>
    /\ ValSum(new_from[1].balance.amount, ctx.money[1].amount,
              ctx.from[1].balance.amount)
    /\ ba[ctx.i] = <<>>
    /\ ba[ctx.j] = <<>>

C4_Witness ==
  /\ pc = "done"
  /\ Len(trace) = 2
  /\ trace[1].ok
  /\ ~trace[2].ok
  /\ ctx.money[1].amount.m > 0
  /\ ctx.to[1].balance.currency # ctx.money[1].currency

\* C5: every constructor returns a Money in the given currency whose stored
\* amount has the currency's number of fractional digits: 2 for USD, 0 for
\* JPY.
C5_ConstructorsRescale ==
  calc.op \in Constructors =>
    /\ calc.res.kind = "ok"
    /\ acc = calc.res.val[1]
    /\ acc.currency = calc.cur
    /\ acc.currency = "USD" => acc.amount.s = 2
    /\ acc.currency = "JPY" => acc.amount.s = 0

C5_Witness ==
  /\ calc.op = "new"
  /\ calc.cur = "USD"
  /\ calc.dec[1].s = 3
  /\ calc.dec[1].m # 0
  /\ acc.amount.m # 0

\* C6: a comparison never fails; between different currencies it gives no
\* ordering, and between equal currencies it is Equal, Less or Greater as
\* the amounts compare.
C6_ComparisonFollowsAmounts ==
  calc.op = "partial_cmp" =>
    LET m == calc.lhs[1]
        n == calc.money[1]
    IN  /\ calc.res.kind # "panic"
        /\ m.currency # n.currency => calc.ord = "None"
        /\ m.currency = n.currency =>
             calc.ord = (IF ValLess(m.amount, n.amount) THEN "Less"
                         ELSE IF ValLess(n.amount, m.amount) THEN "Greater"
                         ELSE "Equal")

C6_Witness ==
  /\ calc.op = "partial_cmp"
  /\ calc.lhs[1].currency # calc.money[1].currency
  /\ calc.ord = "None"
  /\ calc.lhs[1].amount.m # calc.money[1].amount.m

\* C7: divided_by with a zero divisor yields no Money: the decimal layer's
\* division-by-zero fault reaches the caller (as a panic), it is not the
\* currency-mismatch error, and no amount is produced in its place.
C7_ZeroDivisorFaults ==
  (calc.op = "divided_by" /\ calc.dec[1].m = 0) =>
    /\ calc.res.kind = "panic"
    /\ calc.res.val = <<>>
    /\ calc.res.err = "Division by zero"
    /\ calc.res.err # NotSameCurrencyError
    /\ acc = calc.lhs[1]

C7_Witness ==
  /\ calc.op = "divided_by"
  /\ calc.dec[1].m = 0
  /\ calc.lhs[1].amount.m # 0
  /\ calc.res.kind = "panic"

\* C8: send withdraws from the sender first; on_receive is called only
\* after a successful withdrawal and is handed the sender's debited state;
\* after a failed withdrawal transfer returns the error and on_receive is
\* never called.
C8_WithdrawBeforeOnReceive ==
  /\ Len(trace) <= 2
  /\ pc \in {"on_receive", "return", "done"} => Len(trace) >= 1
  /\ pc = "return" => Len(trace) = 2
  /\ Len(trace) >= 1 =>
       /\ trace[1].call = "withdraw"
       /\ trace[1].self = ctx.from
  /\ Len(trace) = 2 =>
       /\ trace[1].ok
       /\ trace[2].call = "on_receive"
       /\ trace[2].self = ctx.to
       /\ trace[2].from = new_from
       /\ trace[2].from # <<>>
       /\ trace[2].from[1].id = ctx.from[1].id
       /\ ValSum(trace[2].from[1].balance.amount, ctx.money[1].amount,
                 ctx.from[1].balance.amount)
  /\ (Len(trace) >= 1 /\ ~trace[1].ok) =>
       /\ pc = "done"
       /\ Len(trace) = 1
       /\ result.kind = "err"
       /\ result.val = <<>>
       /\ new_to = <<>>

C8_Witness ==
  /\ pc = "done"
  /\ Len(trace) = 1
  /\ ~trace[1].ok
  /\ ctx.money[1].amount.m > 0

\* C9: the balance of every account value, held by the caller, inside send
\* or returned by transfer, is in the currency the account was constructed
\* with; a deposit or withdrawal of another currency fails.
C9_BalanceCurrencyFixed ==
  /\ \A i \in Slots : ba[i] # <<>> => ba[i][1].balance.currency = ctor[i]
  /\ new_from # <<>> => new_from[1].balance.currency = ctor[ctx.i]
  /\ new_to # <<>> => new_to[1].balance.currency = ctor[ctx.j]
  /\ result.kind = "ok" =>
       /\ result.val[1].balance.currency = ctor[ctx.i]
       /\ result.val[2].balance.currency = ctor[ctx.j]
  /\ last.op \in {"deposit", "withdraw"} =>
       /\ last.amount[1].currency # last.before[1].balance.currency
            => last.res.kind = "err" /\ ba[last.slot] = <<>>
       /\ last.res.kind = "ok"
            => last.res.val[1].balance.currency = last.before[1].balance.currency

C9_Witness ==
  /\ last.op = "deposit"
  /\ last.res.kind = "ok"
  /\ last.amount[1].amount.m # 0
  /\ ctor[last.slot] = "USD"
  /\ ba[last.slot] = last.res.val

\* C10: every Money value reachable from the constructors by add, subtract,
\* negated, abs, times and divided_by has an amount with exactly its
\* currency's number of fractional digits.
C10_OperationsKeepScale ==
  acc.amount.s = digit(acc.currency)

====
